---- MODULE Spec2Model ----
(***************************************************************************)
(* A model of opensea_explorer: the batch fetcher (fetch.py), the API      *)
(* client (opensea_api_client.py) and the Rarity view (explorer.py).       *)
(* The three programs are separate processes; each has a specification of  *)
(* its own over the shared variables (SpecFetch, SpecClient, SpecRarity).  *)
(***************************************************************************)
EXTENDS Integers, Sequences, FiniteSets, TLC

VARIABLES
    \* ---- fetch.py
    pc,             \* position of the fetch script: "loop", "write", "done", "aborted"
    offset,         \* fetch.py:13
    data,           \* data['assets'], fetch.py:14
    script,         \* responses the remote service will give, in order
    requests,       \* get_assets calls issued so far: [offset, limit]
    pages,          \* pages received so far, in request order
    progress,       \* number of progress messages printed (fetch.py:28)
    file,           \* content of assets.json
    prev_file,      \* content of assets.json when the run started
    writes,         \* number of times assets.json was written
    \* ---- explorer.py, Rarity branch
    rpc,            \* position of the Rarity branch: "start", "render", "done"
    asset_rarities, \* explorer.py:73
    assets_sorted,  \* explorer.py:92
    displayed,      \* assets handed to render_asset so far (explorer.py:94-95)
    \* ---- opensea_api_client.py, one Client
    API_KEY,        \* self.API_KEY
    API_URL,        \* self.API_URL
    headers,        \* self.session.headers
    requests_params,\* self._requests_params
    ctor,           \* the four fields above as __init__ left them
    response,       \* self.response: <<>> or <<the last HTTP response>>
    phase,          \* "idle", or "request": a call is prepared and the HTTP call is next
    call,           \* <<>> or <<the call in progress>>
    prepared,       \* <<>> or <<what _get_request_kwargs gave for the call in progress>>
    result          \* what the last call gave its caller

fetchVars == <<pc, offset, data, script, requests, pages, progress, prev_file, writes>>
rarityVars == <<rpc, asset_rarities, assets_sorted, displayed>>
configVars == <<API_KEY, API_URL, headers, requests_params>>
clientVars == <<configVars, ctor, response, phase, call, prepared, result>>
vars == <<fetchVars, file, rarityVars, clientVars>>

(***************************************************************************)
(* Bounds of the model                                                     *)
(***************************************************************************)
MaxPages == 3       \* longest scripted sequence of responses
MaxAssets == 22     \* largest number of assets in assets.json for the Rarity view
MaxStride == 5      \* largest stride of the generator of asset lists

(***************************************************************************)
(* Helpers                                                                 *)
(***************************************************************************)
RECURSIVE Flatten(_)
Flatten(ss) == IF ss = <<>> THEN <<>> ELSE Head(ss) \o Flatten(Tail(ss))

Min(a, b) == IF a <= b THEN a ELSE b

SeqsUpTo(S, n) == UNION {[1..k -> S] : k \in 1..n}

(***************************************************************************)
(* opensea_api_client.py: Python values                                    *)
(*                                                                         *)
(* Every Python value is a record tagged by its type. A str that the       *)
(* program lower-cases is a sequence of characters; a str that serves as a *)
(* dict key or as an element of `data` is a name (a TLA+ string), and      *)
(* Text gives its characters where the program indexes or formats it.      *)
(***************************************************************************)
PyNone == [t |-> "None"]
PyStr(chars) == [t |-> "str", v |-> chars]
PyInt(n) == [t |-> "int", v |-> n]
\* A dict keeps insertion order: a sequence of entries [k |-> key, v |-> value].
PyDict(items) == [t |-> "dict", v |-> items]
\* A list of (key, value) pairs, entries shaped as a dict's.
PyList(items) == [t |-> "list", v |-> items]

Entry(key, value) == [k |-> key, v |-> value]

Text ==
    [owner |-> <<"o", "w", "n", "e", "r">>,
     limit |-> <<"l", "i", "m", "i", "t">>,
     requests_params |-> <<"r", "e", "q", "u", "e", "s", "t", "s", "_",
                           "p", "a", "r", "a", "m", "s">>,
     a |-> <<"a">>]

\* bool(x), as `if x:` takes it.
Truthy(x) ==
    CASE x.t = "None" -> FALSE
      [] x.t = "int" -> x.v # 0
      [] OTHER -> Len(x.v) > 0

Keys(d) == {d.v[i].k : i \in 1..Len(d.v)}
Get(d, key) == d.v[CHOOSE i \in 1..Len(d.v) : d.v[i].k = key].v
Remove(d, key) == [d EXCEPT !.v = SelectSeq(d.v, LAMBDA e : e.k # key)]
\* A dict read as keyword arguments.
AsKwargs(d) == [key \in Keys(d) |-> Get(d, key)]

NoKwargs == [key \in {} |-> PyNone]
\* a.update(b)
Update(a, b) ==
    [key \in DOMAIN a \cup DOMAIN b |-> IF key \in DOMAIN b THEN b[key] ELSE a[key]]
\* del a[key]
Without(a, key) == [k \in DOMAIN a \ {key} |-> a[k]]

\* str.lower() on the characters the model uses.
UpperCase == <<"A", "B", "C", "D", "E", "F", "N", "T", "W", "X">>
LowerCase == <<"a", "b", "c", "d", "e", "f", "n", "t", "w", "x">>
LowerChar(c) ==
    IF \E i \in 1..Len(UpperCase) : UpperCase[i] = c
    THEN LowerCase[CHOOSE i \in 1..Len(UpperCase) : UpperCase[i] = c]
    ELSE c
lower(s) == PyStr([i \in 1..Len(s.v) |-> LowerChar(s.v[i])])

\* str(n) for n >= 0.
Digit == <<"0", "1", "2", "3", "4", "5", "6", "7", "8", "9">>
RECURSIVE Decimal(_)
Decimal(n) == IF n < 10 THEN <<Digit[n + 1]>> ELSE Decimal(n \div 10) \o <<Digit[(n % 10) + 1]>>

\* f'{x}' for a str or an int.
Format(x) == IF x.t = "int" THEN Decimal(x.v) ELSE x.v

(***************************************************************************)
(* Client.__init__, _init_session, _get_headers                            *)
(***************************************************************************)
UserAgent == "Mozilla/5.0 ... Safari/537.36"

\* opensea_api_client.py:58-66
get_headers(api_key) ==
    LET base == [k \in {"Accept", "User-Agent"} |->
                    IF k = "Accept" THEN "application/json" ELSE UserAgent]
    IN IF Truthy(api_key)
       THEN Update(base, [k \in {"X-MBX-APIKEY"} |-> api_key.v])
       ELSE base

\* opensea_api_client.py:43-50. requests_params is PyNone or
\* [t |-> "kwargs", v |-> a mapping of keyword arguments].
Overrides(m) == [t |-> "kwargs", v |-> m]
OverridesTruthy(rp) == rp.t = "kwargs" /\ DOMAIN rp.v # {}

\* What a call gave its caller: nothing yet, a value, or an error; `stage` is
\* where the call ended ("prepare", "transport" or "response").
NoResult == [kind |-> "none", stage |-> "", exc |-> "", code |-> 0,
             message |-> <<>>, value |-> PyNone]

Constructed(api_key, rp) ==
    /\ API_KEY = api_key
    /\ API_URL = "https://api.opensea.io/api/v1"
    /\ headers = get_headers(api_key)
    /\ requests_params = rp
    /\ ctor = [API_KEY |-> API_KEY, API_URL |-> API_URL, headers |-> headers,
               requests_params |-> requests_params]
    /\ response = <<>>
    /\ phase = "idle"
    /\ call = <<>>
    /\ prepared = <<>>
    /\ result = NoResult

(***************************************************************************)
(* Client._get_request_kwargs  (opensea_api_client.py:68-80)               *)
(***************************************************************************)
\* One item of the generator of line 78: iterating a dict yields its keys, and
\* data[0], data[1] are then the key's first two characters; iterating a list
\* yields its pairs.
ItemRaises(d, e) == d.t = "dict" /\ Len(Text[e.k]) < 2
ItemText(d, e) ==
    IF d.t = "dict"
    THEN <<Text[e.k][1]>> \o <<"=">> \o <<Text[e.k][2]>>
    ELSE Text[e.k] \o <<"=">> \o Format(e.v)

\* '&'.join(...)
RECURSIVE JoinFrom(_, _)
JoinFrom(d, i) ==
    IF i > Len(d.v) THEN <<>>
    ELSE (IF i = 1 THEN <<>> ELSE <<"&">>) \o ItemText(d, d.v[i]) \o JoinFrom(d, i + 1)

\* The outcome: the keyword arguments returned (or the error raised), and
\* self._requests_params afterwards. kwargs.update(self._requests_params) copies
\* references: when 'data' comes from self._requests_params, kwargs['data'] is
\* the very dict held there, and line 76 deletes from it.
\* (The nested 'requests_params' dict is taken to hold no 'data' key.)
get_request_kwargs(method, force_params, kwargs, rp) ==
    LET merged == IF OverridesTruthy(rp) THEN Update(kwargs, rp.v) ELSE kwargs
        shared == OverridesTruthy(rp) /\ "data" \in DOMAIN rp.v
        data0 == IF "data" \in DOMAIN merged THEN merged["data"] ELSE PyNone
        hoist == /\ Truthy(data0)
                 /\ data0.t = "dict"
                 /\ "requests_params" \in Keys(data0)
        data1 == IF hoist THEN Remove(data0, "requests_params") ELSE data0
        hoisted == IF hoist
                   THEN [Update(merged, AsKwargs(Get(data0, "requests_params")))
                            EXCEPT !["data"] = data1]
                   ELSE merged
        rp1 == IF hoist /\ shared
               THEN Overrides([rp.v EXCEPT !["data"] = data1])
               ELSE rp
        toParams == Truthy(data1) /\ (method = "get" \/ force_params)
        raises == toParams /\ \E i \in 1..Len(data1.v) : ItemRaises(data1, data1.v[i])
    IN [raised |-> IF raises THEN "IndexError" ELSE "",
        kwargs |-> IF raises THEN NoKwargs
                   ELSE IF toParams
                   THEN Without(Update(hoisted, [k \in {"params"} |-> PyStr(JoinFrom(data1, 1))]),
                                "data")
                   ELSE hoisted,
        requests_params |-> rp1]

(***************************************************************************)
(* Resource accessors  (opensea_api_client.py:116-144)                     *)
(***************************************************************************)
\* params.update({key: value}) / params[key] = value, when the filter is truthy.
FilterIfNotNone(params, key, value) ==
    IF value.t # "None" THEN Append(params, Entry(key, value)) ELSE params
Filter(params, key, value) ==
    IF Truthy(value) THEN Append(params, Entry(key, value)) ELSE params

\* opensea_api_client.py:124-129
get_assets_params(collection, owner, order_direction, lim, off) ==
    LET p1 == IF Truthy(collection)
              THEN <<Entry("collection", lower(collection))>> ELSE <<>>
        p2 == Filter(p1, "owner", owner)
        p3 == Filter(p2, "order_direction", order_direction)
        p4 == Filter(p3, "limit", lim)
        p5 == Filter(p4, "offset", off)
    IN PyDict(p5)

\* opensea_api_client.py:139-143
get_events_params(collection, asset_contract_address, token_id, event_type) ==
    LET p1 == IF Truthy(collection)
              THEN <<Entry("collection_slug", lower(collection))>> ELSE <<>>
        p2 == Filter(p1, "asset_contract_address", asset_contract_address)
        p3 == Filter(p2, "token_id", token_id)
        p4 == Filter(p3, "event_type", event_type)
    IN PyDict(p4)

(***************************************************************************)
(* Responses and Client._handle_response (opensea_api_client.py:7-21,87-94)*)
(***************************************************************************)
\* A parsed JSON value: an object with the keys `keys` (of which the model
\* reads status_code and msg), or a list.
JObject(keys, code, msg) == [t |-> "object", keys |-> keys, status_code |-> code, msg |-> msg]
JList == [t |-> "list", keys |-> {}, status_code |-> 0, msg |-> ""]

\* A response body: text that json.loads accepts, giving `json`, or rejects.
NotJsonBody == [valid |-> FALSE, json |-> JList]
JsonBody(j) == [valid |-> TRUE, json |-> j]

Bodies ==
    {NotJsonBody,
     JsonBody(JObject({"status_code", "msg"}, 404, "not found")),
     JsonBody(JObject({"assets"}, 0, "")),
     JsonBody(JObject({"status_code"}, 500, "")),
     JsonBody(JList)}

StatusCodes == {200, 299, 300, 404}
Reason(status) ==
    CASE status = 200 -> "OK"
      [] status = 300 -> "Multiple Choices"
      [] status = 404 -> "Not Found"
      [] OTHER -> ""
HttpResponses == {[status_code |-> s, reason |-> Reason(s), body |-> b] : s \in StatusCodes, b \in Bodies}

Return(stage, value) == [NoResult EXCEPT !.kind = "return", !.stage = stage, !.value = value]
Raise(stage, exc) == [NoResult EXCEPT !.kind = "raise", !.stage = stage, !.exc = exc]
RaiseAPI(stage, code, message) ==
    [NoResult EXCEPT !.kind = "raise", !.stage = stage, !.exc = "OpenSeaAPIException",
                     !.code = code, !.message = message]

\* json_res[key]: the error a subscript raises, "" when it gives a value.
SubscriptError(j, key) ==
    IF j.t # "object" THEN "TypeError"
    ELSE IF key \notin j.keys THEN "KeyError"
    ELSE ""

\* raise OpenSeaAPIException(response, response.text): what the raise statement
\* ends with, the constructor's own errors included (lines 8-18).
OpenSeaAPIException(resp) ==
    IF ~resp.body.valid
    THEN RaiseAPI("response", 0, <<"Invalid JSON error message from OpenSea: ", resp.reason>>)
    ELSE IF SubscriptError(resp.body.json, "status_code") # ""
    THEN Raise("response", SubscriptError(resp.body.json, "status_code"))
    ELSE IF SubscriptError(resp.body.json, "msg") # ""
    THEN Raise("response", SubscriptError(resp.body.json, "msg"))
    ELSE RaiseAPI("response", resp.body.json.status_code, <<resp.body.json.msg>>)

\* raise OpenSeaAPIException(f"Invalid Response: {response.text}") (line 94):
\* one argument for a constructor that takes (response, text).
InvalidResponse(resp) == Raise("response", "TypeError")

\* opensea_api_client.py:87-94
handle_response(resp) ==
    IF ~(200 <= resp.status_code /\ resp.status_code < 300)
    THEN OpenSeaAPIException(resp)
    ELSE IF resp.body.valid
    THEN Return("response", resp.body.json)
    ELSE InvalidResponse(resp)

(***************************************************************************)
(* fetch.py                                                                *)
(***************************************************************************)
limit == 20         \* fetch.py:21, the page size asked for
short_page == 20    \* fetch.py:23, a page below this size is the last one
offset_step == 20   \* fetch.py:26

\* assets.json: no file, or one JSON object with the key 'assets'.
NoFile == <<>>
FileOf(assets) == <<[assets |-> assets]>>

\* An asset as the remote service returns it: an opaque mapping, of which the
\* programs read token_id and the trait counts.
Asset(id, counts) ==
    [token_id |-> id, traits |-> [j \in 1..Len(counts) |-> [trait_count |-> counts[j]]]]

\* The i-th asset of the page answering request number r.
ServerAsset(r, i) == Asset(100 * r + i, <<>>)
ServerPage(r, n) == [i \in 1..n |-> ServerAsset(r, i)]

\* A scripted response: a page of n assets, or a failure of the call.
PageSizes == {0, 5, 20, 21}
Responses == [ok : {TRUE}, n : PageSizes] \cup {[ok |-> FALSE, n |-> 0]}

OldFile == FileOf(<<Asset(901, <<>>), Asset(902, <<>>)>>)

InitFetch ==
    /\ pc = "loop"
    /\ offset = 0
    /\ data = <<>>
    /\ script \in SeqsUpTo(Responses, MaxPages)
    /\ requests = <<>>
    /\ pages = <<>>
    /\ progress = 0
    /\ file \in {NoFile, OldFile}
    /\ prev_file = file
    /\ writes = 0
    /\ rpc = "idle"
    /\ asset_rarities = <<>>
    /\ assets_sorted = <<>>
    /\ displayed = <<>>
    /\ Constructed(PyNone, PyNone)      \* client = Client(), fetch.py:12

\* fetch.py:27, the statement that follows offset += 20: an unconditional break.
AfterOffsetIncrementLoops == "loop"
AfterOffsetIncrement == "write"

\* json.dump(data, fp) into a file opened with 'w' (fetch.py:31-32).
\* `old` is the file's content before the open: mode 'w' discards it.
DumpAppends(d, old) == IF old = NoFile THEN FileOf(d) ELSE FileOf(old[1].assets \o d)
Dump(d, old) == FileOf(d)

\* One iteration of the while loop whose get_assets call returns (fetch.py:16-29).
FetchPage ==
    /\ pc = "loop"
    /\ script # <<>>
    /\ Head(script).ok
    /\ LET r == Len(requests) + 1
           page == ServerPage(r, Head(script).n)      \* response['assets']
           short == Len(page) < short_page
           next == IF short THEN "write" ELSE AfterOffsetIncrement
       IN /\ requests' = Append(requests, [offset |-> offset, limit |-> limit])
          /\ pages' = Append(pages, page)
          /\ data' = data \o page
          /\ offset' = IF short THEN offset ELSE offset + offset_step
          /\ pc' = next
          /\ progress' = IF next = "loop" THEN progress + 1 ELSE progress
    /\ script' = Tail(script)
    /\ UNCHANGED <<file, prev_file, writes, rarityVars, clientVars>>

\* An iteration whose get_assets call raises: nothing in fetch.py catches the
\* error, the script ends there (fetch.py:17-21).
FetchFail ==
    /\ pc = "loop"
    /\ script # <<>>
    /\ ~Head(script).ok
    /\ requests' = Append(requests, [offset |-> offset, limit |-> limit])
    /\ script' = Tail(script)
    /\ pc' = "aborted"
    /\ UNCHANGED <<offset, data, pages, progress, file, prev_file, writes, rarityVars, clientVars>>

\* with open('assets.json', 'w') as fp: json.dump(data, fp)  (fetch.py:31-32)
WriteFile ==
    /\ pc = "write"
    /\ file' = Dump(data, file)
    /\ writes' = writes + 1
    /\ pc' = "done"
    /\ UNCHANGED <<offset, data, script, requests, pages, progress, prev_file, rarityVars, clientVars>>

NextFetch == FetchPage \/ FetchFail \/ WriteFile

SpecFetch == InitFetch /\ [][NextFetch]_vars

(***************************************************************************)
(* Calls on the client                                                     *)
(***************************************************************************)
Collections == {PyNone, PyStr(<<>>), PyStr(<<"N", "F", "T", "-", "w">>)}
Owners == {PyNone, PyStr(<<>>), PyStr(<<"0", "x", "A", "b">>)}
Directions == {PyNone, PyStr(<<"a", "s", "c">>)}
Numbers == {PyNone, PyInt(0), PyInt(20)}
Addresses == {PyNone, PyStr(<<"0", "x", "A", "b">>)}
TokenIds == {PyNone, PyStr(<<>>), PyStr(<<"0">>)}
EventTypes == {PyNone, PyStr(<<"t", "r", "a", "n", "s", "f", "e", "r">>)}

Timeout5 == PyDict(<<Entry("timeout", PyInt(5))>>)
PairsData == PyList(<<Entry("owner", PyStr(<<"x">>)), Entry("limit", PyInt(5))>>)
EmptyData == PyList(<<>>)
DictData == PyDict(<<Entry("owner", PyStr(<<"x">>))>>)
DictDataWithParams == PyDict(<<Entry("requests_params", Timeout5), Entry("owner", PyStr(<<"x">>))>>)
OnlyParamsData == PyDict(<<Entry("requests_params", Timeout5)>>)
ShortKeyData == PyDict(<<Entry("a", PyStr(<<"x">>))>>)
DataChoices == <<PairsData, EmptyData, DictData, DictDataWithParams, OnlyParamsData, ShortKeyData>>

KwargsChoices ==
    {NoKwargs, [k \in {"params"} |-> PyDict(<<Entry("limit", PyInt(5))>>)]}
        \cup {[k \in {"data"} |-> DataChoices[i]] : i \in 1..Len(DataChoices)}

Constructions ==
    {<<PyNone, PyNone>>,
     <<PyStr(<<>>), PyNone>>,
     <<PyStr(<<"K", "E", "Y">>), PyNone>>,
     <<PyNone, Overrides(NoKwargs)>>,
     <<PyNone, Overrides(AsKwargs(Timeout5))>>,
     <<PyNone, Overrides([k \in {"data"} |-> DictDataWithParams])>>,
     <<PyNone, Overrides([k \in {"data"} |-> PairsData])>>,
     <<PyStr(<<"K", "E", "Y">>), Overrides([k \in {"data"} |-> OnlyParamsData])>>}

InitClient ==
    /\ \E c \in Constructions : Constructed(c[1], c[2])
    /\ pc = "idle"
    /\ offset = 0
    /\ data = <<>>
    /\ script = <<>>
    /\ requests = <<>>
    /\ pages = <<>>
    /\ progress = 0
    /\ file = NoFile
    /\ prev_file = NoFile
    /\ writes = 0
    /\ rpc = "idle"
    /\ asset_rarities = <<>>
    /\ assets_sorted = <<>>
    /\ displayed = <<>>

\* Client._request up to the HTTP call (lines 82-84), entered through
\* _request_api and _create_api_uri (lines 96-102). The client is used by one
\* caller at a time: a call starts when no call is in progress.
StartRequest(fn, args, method, path, force_params, kwargs) ==
    LET out == get_request_kwargs(method, force_params, kwargs, requests_params)
    IN /\ requests_params' = out.requests_params
       /\ call' = <<[fn |-> fn, args |-> args, method |-> method, path |-> path,
                     force_params |-> force_params, kwargs |-> kwargs]>>
       /\ prepared' = <<[raised |-> out.raised, uri |-> <<API_URL, "/", path>>,
                         kwargs |-> out.kwargs]>>
       /\ phase' = "request"
       /\ result' = NoResult
       /\ UNCHANGED <<API_KEY, API_URL, headers, ctor, response>>
       /\ UNCHANGED <<fetchVars, file, rarityVars>>

\* Client.get_assets (lines 116-130)
get_assets ==
    /\ phase = "idle"
    /\ \E collection \in Collections, owner \in Owners, order_direction \in Directions,
          lim \in Numbers, off \in Numbers :
           StartRequest("get_assets",
                        [collection |-> collection, owner |-> owner,
                         order_direction |-> order_direction, limit |-> lim, offset |-> off],
                        "get", "assets", FALSE,
                        [k \in {"params"} |->
                           get_assets_params(collection, owner, order_direction, lim, off)])

\* Client.get_events (lines 132-144)
get_events ==
    /\ phase = "idle"
    /\ \E collection \in Collections, asset_contract_address \in Addresses,
          token_id \in TokenIds, event_type \in EventTypes :
           StartRequest("get_events",
                        [collection |-> collection,
                         asset_contract_address |-> asset_contract_address,
                         token_id |-> token_id, event_type |-> event_type],
                        "get", "events", FALSE,
                        [k \in {"params"} |->
                           get_events_params(collection, asset_contract_address,
                                             token_id, event_type)])

\* Client._get, _post, _put, _delete (lines 104-114), called directly.
wrapper_call ==
    /\ phase = "idle"
    /\ \E method \in {"get", "post", "put", "delete"}, force_params \in BOOLEAN,
          kwargs \in KwargsChoices :
           StartRequest("wrapper", NoKwargs, method, "path", force_params, kwargs)

\* _get_request_kwargs raised: the error leaves _request, no HTTP call is made.
PrepareRaises ==
    /\ phase = "request"
    /\ prepared[1].raised # ""
    /\ result' = Raise("prepare", prepared[1].raised)
    /\ phase' = "idle"
    /\ call' = <<>>
    /\ prepared' = <<>>
    /\ UNCHANGED <<configVars, ctor, response>>
    /\ UNCHANGED <<fetchVars, file, rarityVars>>

\* The HTTP call of line 84 raises (no connection, a timeout): nothing in the
\* client catches it, and self.response keeps its value.
TransportFails ==
    /\ phase = "request"
    /\ prepared[1].raised = ""
    /\ result' = Raise("transport", "requests.ConnectionError")
    /\ phase' = "idle"
    /\ call' = <<>>
    /\ prepared' = <<>>
    /\ UNCHANGED <<configVars, ctor, response>>
    /\ UNCHANGED <<fetchVars, file, rarityVars>>

\* The HTTP call returns a response (lines 84-85).
Receive ==
    /\ phase = "request"
    /\ prepared[1].raised = ""
    /\ \E r \in HttpResponses :
        /\ response' = <<r>>
        /\ result' = handle_response(r)
    /\ phase' = "idle"
    /\ call' = <<>>
    /\ prepared' = <<>>
    /\ UNCHANGED <<configVars, ctor>>
    /\ UNCHANGED <<fetchVars, file, rarityVars>>

NextClient ==
    get_assets \/ get_events \/ wrapper_call \/ PrepareRaises \/ TransportFails \/ Receive

SpecClient == InitClient /\ [][NextClient]_vars

(***************************************************************************)
(* explorer.py, the Rarity branch                                          *)
(***************************************************************************)
total_supply == 8888    \* explorer.py:79, the divisor of every trait_count
display_limit == 20     \* explorer.py:94, assets_sorted[:20]

\* A rarity is the rational num / total_supply^k, kept exact. (The program
\* holds it as a float; rounding is not modelled.)
RarityOne == [num |-> 1, k |-> 0]               \* asset_rarity = 1, explorer.py:76

\* asset_rarity *= trait['trait_count'] / 8888  (explorer.py:79-80)
TimesTraitRarity(r, trait) == [num |-> r.num * trait.trait_count, k |-> r.k + 1]

\* for trait in asset['traits']: ...  (explorer.py:78-80)
RECURSIVE AssetRarity(_, _)
AssetRarity(r, traits) ==
    IF traits = <<>> THEN r
    ELSE AssetRarity(TimesTraitRarity(r, Head(traits)), Tail(traits))

\* The entry appended to asset_rarities (explorer.py:82-90); of its fields the
\* ones that decide the order and the display are kept.
Annotated(asset) ==
    [token_id |-> asset.token_id,
     rarity |-> AssetRarity(RarityOne, asset.traits),
     traits |-> asset.traits]

\* b \div total_supply^d, rounded down.
RECURSIVE DivPow(_, _)
DivPow(b, d) == IF d = 0 THEN b ELSE DivPow(b \div total_supply, d - 1)

\* r <= s as rationals, computed without leaving 32 bits:
\* a * m <= b  iff  a <= b \div m, for integers a, b and m > 0.
RarityLeq(r, s) ==
    IF r.k <= s.k
    THEN r.num <= DivPow(s.num, s.k - r.k)
    ELSE ~(s.num <= DivPow(r.num - 1, r.k - s.k))

\* The order sorted() uses on the key asset['rarity'] (explorer.py:92).
RarityGreater(r, s) == ~RarityLeq(r, s)
RarityLess(r, s) == ~RarityLeq(s, r)

\* sorted() is stable: an entry goes behind the entries that are not greater.
RECURSIVE Insert(_, _)
Insert(x, s) ==
    IF s = <<>> THEN <<x>>
    ELSE IF RarityLess(x.rarity, Head(s).rarity) THEN <<x>> \o s
    ELSE <<Head(s)>> \o Insert(x, Tail(s))

RECURSIVE Sorted(_)
Sorted(s) ==
    IF s = <<>> THEN <<>>
    ELSE Insert(s[Len(s)], Sorted(SubSeq(s, 1, Len(s) - 1)))

\* Asset lists the view is run on: asset i carries the trait counts
\* Profiles[((a * i + b) % NProfiles) + 1].
Profiles ==
    << <<>>, <<100, 50>>, <<1000>>, <<50>>, <<8888, 50>>, <<100, 100>>, <<0, 7>>,
       <<1000, 1000, 1000>> >>
NProfiles == Len(Profiles)
GenAssets(n, a, b) == [i \in 1..n |-> Asset(i, Profiles[((a * i + b) % NProfiles) + 1])]

InitRarity ==
    /\ file \in {NoFile} \cup
                {FileOf(GenAssets(n, a, b)) :
                    n \in 0..MaxAssets, a \in 0..MaxStride, b \in 0..(NProfiles - 1)}
    /\ rpc = "start"
    /\ asset_rarities = <<>>
    /\ assets_sorted = <<>>
    /\ displayed = <<>>
    /\ pc = "idle"
    /\ offset = 0
    /\ data = <<>>
    /\ script = <<>>
    /\ requests = <<>>
    /\ pages = <<>>
    /\ progress = 0
    /\ prev_file = file
    /\ writes = 0
    /\ Constructed(PyNone, PyNone)      \* client = Client(), explorer.py:11

\* open('assets.json') raises when there is no file (explorer.py:71).
OpenFails ==
    /\ rpc = "start"
    /\ file = NoFile
    /\ rpc' = "failed"
    /\ UNCHANGED <<clientVars, fetchVars, file, asset_rarities, assets_sorted, displayed>>

\* Read the file, score every asset and sort (explorer.py:71-92).
Score ==
    /\ rpc = "start"
    /\ file # NoFile
    /\ LET assets == file[1].assets
           scored == [i \in 1..Len(assets) |-> Annotated(assets[i])]
       IN /\ asset_rarities' = scored
          /\ assets_sorted' = Sorted(scored)
          /\ rpc' = IF Len(assets) = 0 THEN "done" ELSE "render"
    /\ UNCHANGED <<clientVars, fetchVars, file, displayed>>

\* One iteration of `for asset in assets_sorted[:20]` (explorer.py:94-98).
Render ==
    /\ rpc = "render"
    /\ LET shown == SubSeq(assets_sorted, 1, Min(display_limit, Len(assets_sorted)))
           i == Len(displayed) + 1
       IN /\ displayed' = Append(displayed, shown[i])
          /\ rpc' = IF i = Len(shown) THEN "done" ELSE "render"
    /\ UNCHANGED <<clientVars, fetchVars, file, asset_rarities, assets_sorted>>

NextRarity == OpenFails \/ Score \/ Render

SpecRarity == InitRarity /\ [][NextRarity]_vars

(***************************************************************************)
(* Claims about fetch.py                                                   *)
(***************************************************************************)
ScriptedSizes == [i \in 1..Len(pages) |-> Len(pages[i])] \o [i \in 1..Len(script) |-> script[i].n]

\* C1: the fetcher requests pages of limit 20 at offsets 0, 20, 40, ... in
\* order, accumulates every returned asset, and stops only after the first
\* page that holds fewer than 20 assets; for pages of sizes [20, 20, 5] it
\* issues exactly three requests (offsets 0, 20, 40) and accumulates 45 assets.
C1_FullPagination ==
    pc \in {"write", "done"} =>
        /\ \A i \in 1..Len(requests) :
               requests[i] = [offset |-> offset_step * (i - 1), limit |-> 20]
        /\ data = Flatten(pages)
        /\ pages # <<>>
        /\ Len(pages[Len(pages)]) < 20
        /\ \A i \in 1..(Len(pages) - 1) : Len(pages[i]) >= 20
        /\ (\A i \in 1..Len(script) : script[i].ok) /\ ScriptedSizes = <<20, 20, 5>>
             => Len(requests) = 3 /\ Len(data) = 45

\* C5: assets.json reflects the run's outcome. A run whose get_assets calls
\* all succeeded overwrites the file once, after the loop, with an object
\* whose only key is 'assets' and whose value is the concatenation of the pages
\* fetched, in request order; a run in which a call failed aborts without a
\* retry and leaves the file as it was.
C5_FileReflectsOutcome ==
    /\ pc \in {"loop", "write"} => file = prev_file /\ writes = 0
    /\ pc = "done" =>
        /\ writes = 1
        /\ Len(file) = 1
        /\ DOMAIN file[1] = {"assets"}
        /\ file[1].assets = Flatten(pages)
        /\ Len(pages) = Len(requests)
    /\ pc = "aborted" =>
        /\ file = prev_file
        /\ writes = 0
        /\ Len(requests) = Len(pages) + 1

\* C5's case: a finished run has replaced an older assets.json by a full page.
C5_Witness ==
    /\ pc = "done"
    /\ prev_file = OldFile
    /\ Len(file[1].assets) = 20

\* C8: the loop ends after its first iteration whatever the size of the first
\* page: one get_assets request (offset 0, limit 20), no second request, no
\* progress message, and the accumulated sequence is the first page. Once
\* that call has returned the run is past the loop: what is left is the write.
C8_SingleIteration ==
    /\ Len(requests) <= 1
    /\ pc = "loop" => requests = <<>>
    /\ pages # <<>> => pc \in {"write", "done"}
    /\ progress = 0
    /\ pc \in {"write", "done"} =>
        /\ requests = <<[offset |-> 0, limit |-> 20]>>
        /\ Len(pages) = 1
        /\ data = pages[1]
        /\ (Len(pages[1]) <= limit => Len(data) <= 20)

\* C8's case: a full first page, a further page on offer, and the run is over.
C8_Witness ==
    /\ pc = "done"
    /\ Len(data) = 20
    /\ script # <<>>
    /\ Head(script).ok
    /\ offset = 20

(***************************************************************************)
(* Claims about the Rarity branch                                          *)
(***************************************************************************)
RECURSIVE CountProduct(_)
CountProduct(traits) ==
    IF traits = <<>> THEN 1
    ELSE traits[Len(traits)].trait_count * CountProduct(SubSeq(traits, 1, Len(traits) - 1))

RarityEq(r, s) == RarityLeq(r, s) /\ RarityLeq(s, r)

Counts(traits) == [j \in 1..Len(traits) |-> traits[j].trait_count]

DisplayedIds == {displayed[i].token_id : i \in 1..Len(displayed)}

C7_Scored ==
    rpc \in {"render", "done"} =>
        /\ Len(asset_rarities) = Len(file[1].assets)
        /\ \A i \in 1..Len(asset_rarities) :
              /\ asset_rarities[i].token_id = file[1].assets[i].token_id
              /\ RarityEq(asset_rarities[i].rarity,
                          [num |-> CountProduct(file[1].assets[i].traits),
                           k |-> Len(file[1].assets[i].traits)])
              /\ (file[1].assets[i].traits = <<>> =>
                      RarityEq(asset_rarities[i].rarity, [num |-> 1, k |-> 0]))

C7_Displayed ==
    /\ rpc \in {"render", "done"} =>
        /\ Len(displayed) <= Min(display_limit, Len(asset_rarities))
        /\ \A i, j \in 1..Len(displayed) :
              i < j => /\ RarityLeq(displayed[i].rarity, displayed[j].rarity)
                       /\ displayed[i].token_id # displayed[j].token_id
        /\ \A i \in 1..Len(displayed) :
              \E j \in 1..Len(asset_rarities) : asset_rarities[j] = displayed[i]
    /\ rpc = "done" =>
        /\ Len(displayed) = Min(20, Len(asset_rarities))
        /\ \A j \in 1..Len(asset_rarities) :
              asset_rarities[j].token_id \notin DisplayedIds =>
                  \A i \in 1..Len(displayed) :
                      ~RarityLess(asset_rarities[j].rarity, displayed[i].rarity)

\* C7 as amended: each asset's rarity is the product over its traits of
\* trait_count / 8888, the fixed divisor of the program (no traits: 1; counts
\* [100, 50] give 5000 / 8888^2); the displayed assets are the min(20, n)
\* assets of smallest rarity, in non-decreasing order of rarity, and no
\* asset left out has a smaller rarity than a displayed one.
C7_RarityView ==
    /\ C7_Scored
    /\ C7_Displayed
    /\ \A i \in 1..Len(asset_rarities) :
          Counts(asset_rarities[i].traits) = <<100, 50>> =>
              asset_rarities[i].rarity = [num |-> 5000, k |-> 2]

\* C7 as stated: as above, but counts [100, 50] give 0.005 = 1/200 (the
\* total supply being 1000).
C7_AsStated ==
    /\ C7_Scored
    /\ C7_Displayed
    /\ \A i \in 1..Len(asset_rarities) :
          Counts(asset_rarities[i].traits) = <<100, 50>> =>
              /\ asset_rarities[i].rarity.k = 2
              /\ 200 * asset_rarities[i].rarity.num = total_supply * total_supply

\* C7's case: more than 20 assets, not in order of rarity in the file, one
\* with counts [100, 50] displayed, and an asset left out that is less rare.
C7_Witness ==
    /\ rpc = "done"
    /\ Len(asset_rarities) > 20
    /\ Len(displayed) = 20
    /\ assets_sorted # asset_rarities
    /\ \E i \in 1..Len(displayed) : Counts(displayed[i].traits) = <<100, 50>>
    /\ \E j \in 1..Len(asset_rarities) :
          /\ asset_rarities[j].token_id \notin DisplayedIds
          /\ RarityLess(displayed[20].rarity, asset_rarities[j].rarity)

(***************************************************************************)
(* Claims about the client                                                 *)
(***************************************************************************)
\* The key under which an accessor sends a filter.
QueryKey(fn, filter) ==
    IF filter = "collection" /\ fn = "get_events" THEN "collection_slug" ELSE filter

\* b is a lower-cased: same length, no upper-case letter left, every other
\* character kept.
IsLowerCased(a, b) ==
    /\ Len(a) = Len(b)
    /\ \A i \in 1..Len(a) :
          /\ \A j \in 1..Len(UpperCase) : b[i] # UpperCase[j]
          /\ \/ b[i] = a[i]
             \/ \E j \in 1..Len(UpperCase) : a[i] = UpperCase[j] /\ b[i] = LowerCase[j]

\* C2: the query mapping an accessor hands to the wrapper's GET holds a key
\* exactly for each filter supplied with a truthy value (None, '' and 0 give
\* no key, and no value is null or empty); each value is the argument, the
\* collection lower-cased, under 'collection' (get_assets) or
\* 'collection_slug' (get_events).
C2_QueryHoldsTruthyFilters ==
    (phase = "request" /\ call[1].fn \in {"get_assets", "get_events"}) =>
        LET c == call[1]
            q == c.kwargs["params"]
        IN /\ c.method = "get"
           /\ c.path = (IF c.fn = "get_assets" THEN "assets" ELSE "events")
           /\ DOMAIN c.kwargs = {"params"}
           /\ q.t = "dict"
           /\ Len(q.v) = Cardinality(Keys(q))
           /\ Keys(q) = {QueryKey(c.fn, f) : f \in {g \in DOMAIN c.args : Truthy(c.args[g])}}
           /\ \A i \in 1..Len(q.v) : q.v[i].v.t # "None" /\ Truthy(q.v[i].v)
           /\ \A f \in DOMAIN c.args :
                 Truthy(c.args[f]) =>
                     IF f = "collection"
                     THEN /\ Get(q, QueryKey(c.fn, f)).t = "str"
                          /\ IsLowerCased(c.args[f].v, Get(q, QueryKey(c.fn, f)).v)
                     ELSE Get(q, QueryKey(c.fn, f)) = c.args[f]

\* C2's case: get_events with a mixed-case collection, an empty token_id and
\* a mixed-case address: the slug is lower-cased, the address is not, and
\* token_id is left out.
C2_Witness ==
    /\ phase = "request"
    /\ call[1].fn = "get_events"
    /\ call[1].args.collection = PyStr(<<"N", "F", "T", "-", "w">>)
    /\ call[1].args.token_id = PyStr(<<>>)
    /\ call[1].kwargs["params"] =
          PyDict(<<Entry("collection_slug", PyStr(<<"n", "f", "t", "-", "w">>)),
                   Entry("asset_contract_address", PyStr(<<"0", "x", "A", "b">>))>>)

InRange(status) == 200 <= status /\ status < 300

\* C3: a response whose status is outside [200,300) makes the call fail with
\* OpenSeaAPIException; with a JSON body the error's code and message are the
\* body's status_code and msg, with any other body the code is 0 and the
\* message falls back to the reason phrase. Nothing is returned.
C3_ErrorStatusGivesAPIError ==
    (result.stage = "response" /\ ~InRange(response[1].status_code)) =>
        /\ result.kind = "raise"
        /\ result.exc = "OpenSeaAPIException"
        /\ response[1].body.valid =>
              /\ result.code = response[1].body.json.status_code
              /\ result.message = <<response[1].body.json.msg>>
        /\ ~response[1].body.valid =>
              /\ result.code = 0
              /\ result.message # <<>>
              /\ result.message[Len(result.message)] = response[1].reason

\* C4: a response whose status is in [200,300) and whose body is not JSON
\* makes the call fail with OpenSeaAPIException carrying an "Invalid Response"
\* message; nothing is returned.
C4_InvalidBodyGivesAPIError ==
    (result.stage = "response" /\ InRange(response[1].status_code)
        /\ ~response[1].body.valid) =>
        /\ result.kind = "raise"
        /\ result.exc = "OpenSeaAPIException"
        /\ result.message # <<>>
        /\ result.message[1] = "Invalid Response: "

\* C6: a call whose HTTP call fails before any response fails with
\* OpenSeaRequestException carrying a message, and every error that reaches
\* the caller is an OpenSeaAPIException or an OpenSeaRequestException.
C6_TwoErrorKinds ==
    /\ result.stage = "transport" =>
          /\ result.kind = "raise"
          /\ result.exc = "OpenSeaRequestException"
          /\ result.message # <<>>
    /\ result.kind = "raise" =>
          result.exc \in {"OpenSeaAPIException", "OpenSeaRequestException"}

\* C9: the client's API key, base URL, session headers and global
\* requests_params mapping, nested values included, stay as the constructor
\* left them, whatever calls are made.
C9_ConfigurationImmutable ==
    /\ API_KEY = ctor.API_KEY
    /\ API_URL = ctor.API_URL
    /\ headers = ctor.headers
    /\ requests_params = ctor.requests_params

\* data's key/value pairs, each rendered 'key=value', joined with '&'.
RECURSIVE KeyValueString(_, _)
KeyValueString(items, i) ==
    IF i > Len(items) THEN <<>>
    ELSE (IF i = 1 THEN <<>> ELSE <<"&">>)
            \o Text[items[i].k] \o <<"=">> \o Format(items[i].v)
            \o KeyValueString(items, i + 1)

OverridesData == OverridesTruthy(requests_params) /\ "data" \in DOMAIN requests_params.v

\* C10: the global overrides are merged into the call's keyword arguments, a
\* 'requests_params' entry of a data mapping is hoisted into them and removed
\* from data, and a GET call (or a call with force_params) that has a data
\* parameter is prepared without a 'data' key, 'params' being the string of
\* data's key/value pairs, each 'key=value', joined with '&' in order.
C10_DataBecomesQueryString ==
    (phase = "request" /\ "data" \in DOMAIN call[1].kwargs /\ ~OverridesData) =>
        LET c == call[1]
            p == prepared[1]
            d == c.kwargs["data"]
            pairs == IF d.t = "dict" THEN Remove(d, "requests_params").v ELSE d.v
        IN /\ p.raised = ""
           /\ OverridesTruthy(requests_params) =>
                 \A k \in DOMAIN requests_params.v : p.kwargs[k] = requests_params.v[k]
           /\ (d.t = "dict" /\ "requests_params" \in Keys(d)) =>
                 /\ p.kwargs["timeout"] = PyInt(5)
                 /\ "data" \in DOMAIN p.kwargs => "requests_params" \notin Keys(p.kwargs["data"])
           /\ (c.method = "get" \/ c.force_params) =>
                 /\ "data" \notin DOMAIN p.kwargs
                 /\ "params" \in DOMAIN p.kwargs
                 /\ p.kwargs["params"] = PyStr(KeyValueString(pairs, 1))

====
